---- MODULE Spec2Model ----
(***************************************************************************)
(* A model of src/main.py, the Telegram file sharing bot.                  *)
(*                                                                         *)
(* The state is the MongoDB database the handlers share (the collections   *)
(* files, admins and the single stats document), the inline keyboards the  *)
(* bot has put into chats, and the handlers that are in flight.  Every     *)
(* handler is a sequence of steps, one step per store operation (a pymongo *)
(* call).  The handlers are coroutines on one event loop: the pymongo      *)
(* calls are synchronous and the awaited helpers is_admin, get_file_info   *)
(* and update_stats never suspend, so a handler runs without interruption  *)
(* from one transport call (reply_text, edit_message_text, query.answer,   *)
(* send_document ...) to the next.  The one transport call with a store    *)
(* operation after it is the edit_message_text of the delete confirmation, *)
(* between delete_one and the decrement of total_files; the one whose      *)
(* result decides the outcome is the send_document (send_photo ...) of the *)
(* download, which the handler waits in before it reports.  SpecSeq handles *)
(* one update at a time, which is how main() builds the Application.  Spec *)
(* lets further updates be handled while a handler waits in a transport    *)
(* call, the most the handlers' code admits (an Application that           *)
(* dispatches updates concurrently); every behaviour of SpecSeq is one of  *)
(* Spec.  A transport call changes no store state; it is folded into the   *)
(* store step it follows or precedes and may fail where the model says so. *)
(* query.answer(), the first statement of handle_callback, precedes every  *)
(* read of the handler: the handler is modelled from the point it returns. *)
(*                                                                         *)
(* Text is a sequence of one-character strings, so that lower(), split(),  *)
(* strip() and the substring test are computed and not assumed.            *)
(*                                                                         *)
(* Not modelled: /start (users collection, total_users), /stats, /link and *)
(* /listadmins (they read and reply only), the usage replies for missing   *)
(* arguments, and the fields file_type, uploaded_by, upload_date and        *)
(* last_updated, which no handler reads back to decide anything.  The      *)
(* position of a record in a collection is its insertion order, which is   *)
(* the order find() and find_one() scan in.                                *)
(***************************************************************************)
EXTENDS Integers, Sequences, FiniteSets, Bags, TLC

\* ---------------------------------------------------------------- bounds

\* Handlers invoked in one behaviour of Spec.
MaxEvents == 5

\* Handlers invoked in one behaviour of SpecSeq, where they run one at a time.
MaxSeqEvents == 5

\* Handlers in flight at the same time.
MaxInFlight == 2

\* ---------------------------------------------------------------- inputs

\* ADMIN_IDS, read from the environment at start-up: user 1 is the bootstrap admin.
ADMIN_IDS == {1}

\* The callers: the bootstrap admin and a user who is not.
Users == {1, 2}

\* Telegram file ids (opaque; none contains a callback prefix).
FileIds == {"f1", "f2"}

\* The media messages that are uploaded, as file id, declared file name and
\* caption: f1 named "b" with the caption "#A #A", f2 named "b" with the caption
\* "a", which holds no tag.
Uploads ==
    {[fid |-> "f1", name |-> <<"b">>, caption |-> <<"#", "A", " ", "#", "A">>],
     [fid |-> "f2", name |-> <<"b">>, caption |-> <<"a">>]}

\* The tag argument of /addtag and /removetag (a single token).
TagArgs == {<<"A">>}

\* The text argument of /editname and /editdesc.
Texts == {<<"b">>}

\* The keyword of /search, " ".join(context.args) before lower().
Keywords == {<<"A">>}

\* .limit(10) of the search query.
SearchLimit == 10

\* ------------------------------------------------------------------ text

\* str.lower() on one character.
LowerChar(c) == CASE c = "A" -> "a" [] c = "B" -> "b" [] OTHER -> c

\* str.lower()
Lower(s) == [i \in 1..Len(s) |-> LowerChar(s[i])]

\* c is whitespace, as str.split() sees it.
IsSpace(c) == c = " "

RECURSIVE SplitFrom(_, _, _, _)
\* The words of s from position i on, with cur the word being read.
SplitFrom(s, i, cur, acc) ==
    IF i > Len(s)
    THEN IF cur = << >> THEN acc ELSE Append(acc, cur)
    ELSE IF IsSpace(s[i])
         THEN SplitFrom(s, i + 1, << >>, IF cur = << >> THEN acc ELSE Append(acc, cur))
         ELSE SplitFrom(s, i + 1, Append(cur, s[i]), acc)

\* str.split(): the maximal runs of non-whitespace.
Split(s) == SplitFrom(s, 1, << >>, << >>)

\* word.startswith(c) for a one-character c.
StartsWith(w, c) == Len(w) > 0 /\ w[1] = c

RECURSIVE LStrip(_, _)
LStrip(w, c) == IF Len(w) > 0 /\ w[1] = c THEN LStrip(Tail(w), c) ELSE w

RECURSIVE RStrip(_, _)
RStrip(w, c) ==
    IF Len(w) > 0 /\ w[Len(w)] = c THEN RStrip(SubSeq(w, 1, Len(w) - 1), c) ELSE w

\* word.strip(c): every leading and trailing c removed.
Strip(w, c) == RStrip(LStrip(w, c), c)

\* x in s, for a sequence s.
Contains(s, x) == \E i \in 1..Len(s) : s[i] = x

\* The number of positions of s that hold x.
Count(s, x) == Cardinality({i \in 1..Len(s) : s[i] = x})

RECURSIVE SelectWords(_)
\* [word.strip("#") for word in words if word.startswith("#")]
SelectWords(words) ==
    IF words = << >> THEN << >>
    ELSE IF StartsWith(Head(words), "#")
         THEN <<Strip(Head(words), "#")>> \o SelectWords(Tail(words))
         ELSE SelectWords(Tail(words))

\* The tags handle_file takes from a caption.
ExtractTags(caption) ==
    IF Contains(caption, "#") THEN SelectWords(Split(caption)) ELSE << >>

\* p occurs in t.
IsSubstring(p, t) ==
    \E i \in 0..(Len(t) - Len(p)) : SubSeq(t, i + 1, i + Len(p)) = p

\* {"$regex": keyword, "$options": "i"} on a keyword without regex metacharacters.
RegexMatchI(keyword, text) == IsSubstring(Lower(keyword), Lower(text))

\* ----------------------------------------------------------------- state

VARIABLES
    admins,    \* db["admins"]: the documents, in insertion order
    files,     \* files_collection: the documents, in insertion order
    stats,     \* the one document of stats_collection
    prompts,   \* the inline keyboards the bot has sent, in the order sent
    inflight,  \* the bag of handlers that have started and not finished
    reply,     \* the handler that finished last, with its outcome
    budget,    \* the number of handlers that may still be invoked
    tally      \* history: successful uploads and downloads while no delete or failure happened

vars == <<admins, files, stats, prompts, inflight, reply, budget, tally>>

\* A handler: the update it handles and its position.  fid, name, arg and target
\* are the update's inputs (empty or 0 where the update has none), prompt the
\* keyboard a callback comes from (0 for a command), n the count the last store
\* operation returned, out the outcome.  History, for a callback: after is the
\* branch that resolved its keyboard before it arrived ("" when none had), stale
\* whether the record the keyboard was shown for had been deleted by then.
Handler(op, user, fid, name, arg, target, prompt, after, stale) ==
    [op |-> op, user |-> user, fid |-> fid, name |-> name, arg |-> arg,
     target |-> target, prompt |-> prompt, after |-> after, stale |-> stale,
     pc |-> "start", n |-> 0, out |-> ""]

\* A command's handler: no keyboard.
Command(op, user, fid, name, arg, target) ==
    Handler(op, user, fid, name, arg, target, 0, "", FALSE)

NoReply == Command("none", 0, "", << >>, << >>, 0)

\* -------------------------------------------------------------- the store

\* The position of the first document of fs with this file_id; 0 when there is none.
FirstMatch(fs, fid) ==
    IF \E i \in 1..Len(fs) : fs[i].file_id = fid
    THEN CHOOSE i \in 1..Len(fs) :
            /\ fs[i].file_id = fid
            /\ \A j \in 1..(i - 1) : fs[j].file_id # fid
    ELSE 0

\* files_collection.find_one({"file_id": fid}): no document or one, as a sequence.
find_one(fs, fid) ==
    IF FirstMatch(fs, fid) = 0 THEN << >> ELSE <<fs[FirstMatch(fs, fid)]>>

\* get_file_info(file_id)
get_file_info(fs, fid) == find_one(fs, fid)

\* s without its i-th element.
RemoveAt(s, i) == SubSeq(s, 1, i - 1) \o SubSeq(s, i + 1, Len(s))

\* Mutant of delete_one: delete_many, every match goes.
delete_many(fs, fid) == SelectSeq(fs, LAMBDA d : d.file_id # fid)

\* files_collection.delete_one({"file_id": fid}): the first match goes.
delete_one(fs, fid) ==
    IF FirstMatch(fs, fid) = 0 THEN fs ELSE RemoveAt(fs, FirstMatch(fs, fid))

\* deleted_count of that delete_one.
deleted_count(fs, fid) == IF FirstMatch(fs, fid) = 0 THEN 0 ELSE 1

\* update_one({"file_id": fid}, ...): the first match becomes doc.
ReplaceFirst(fs, fid, doc) ==
    IF FirstMatch(fs, fid) = 0 THEN fs
    ELSE [fs EXCEPT ![FirstMatch(fs, fid)] = doc]

\* {"$set": {field: value}} for field file_name or description.
SetField(doc, field, value) ==
    IF field = "file_name" THEN [doc EXCEPT !.file_name = value]
    ELSE [doc EXCEPT !.description = value]

\* Mutant of AddToSet: $push, which appends whether or not the tag is there.
AddToSet_push(doc, tag) == [doc EXCEPT !.tags = Append(doc.tags, tag)]

\* {"$addToSet": {"tags": tag}}: appended unless an element equals it.
AddToSet(doc, tag) ==
    IF Contains(doc.tags, tag) THEN doc
    ELSE [doc EXCEPT !.tags = Append(doc.tags, tag)]

\* {"$pull": {"tags": tag}}: every element equal to tag goes.
Pull(doc, tag) == [doc EXCEPT !.tags = SelectSeq(doc.tags, LAMBDA t : t # tag)]

\* Mutant of IncDownload: the increment is taken back.
IncDownload_rolled_back(doc) == doc

\* {"$inc": {"download_count": 1}}
IncDownload(doc) == [doc EXCEPT !.download_count = doc.download_count + 1]

\* Mutant of modified_count: matched_count, 1 whenever a document matches.
matched_count(fs, fid, doc) == IF FirstMatch(fs, fid) = 0 THEN 0 ELSE 1

\* modified_count of an update_one that turns the first match into doc.
modified_count(fs, fid, doc) ==
    IF FirstMatch(fs, fid) = 0 THEN 0
    ELSE IF fs[FirstMatch(fs, fid)] = doc THEN 0 ELSE 1

\* Mutant of update_stats: the increment goes to total_files whatever the field.
update_stats_one_field(st, field) == [st EXCEPT !.total_files = st.total_files + 1]

\* update_stats(field): {"$inc": {field: 1}} on the stats document, one store operation.
update_stats(st, field) ==
    IF field = "total_files" THEN [st EXCEPT !.total_files = st.total_files + 1]
    ELSE [st EXCEPT !.total_downloads = st.total_downloads + 1]

\* stats_collection.update_one({}, {"$inc": {"total_files": -1}})
DecTotalFiles(st) == [st EXCEPT !.total_files = st.total_files - 1]

\* The $or query of search_files on one document.
Matches(doc, keyword) ==
    \/ RegexMatchI(keyword, doc.file_name)
    \/ RegexMatchI(keyword, doc.description)
    \/ Contains(doc.tags, keyword)

\* list(files_collection.find(query).limit(10)) for keyword = " ".join(args).lower()
search(fs, words) ==
    LET hits == SelectSeq(fs, LAMBDA d : Matches(d, Lower(words)))
    IN  SubSeq(hits, 1, IF Len(hits) < SearchLimit THEN Len(hits) ELSE SearchLimit)

\* db["admins"].find_one({"user_id": u}) finds a document.
HasAdminEntry(adm, u) == \E i \in 1..Len(adm) : adm[i].user_id = u

\* db["admins"].delete_one({"user_id": u})
DeleteAdmin(adm, u) ==
    IF HasAdminEntry(adm, u)
    THEN RemoveAt(adm, CHOOSE i \in 1..Len(adm) :
                          /\ adm[i].user_id = u
                          /\ \A j \in 1..(i - 1) : adm[j].user_id # u)
    ELSE adm

\* Mutant of is_admin: a guard that lets every caller through.
is_admin_open(adm, u) == "True"

\* is_admin(update): ADMIN_IDS + [admin_id for admin in db["admins"].find()].
\* The comprehension evaluates the name admin_id, which nothing defines, once per
\* document: with a document in the collection the call raises NameError.
is_admin(adm, u) ==
    IF Len(adm) > 0 THEN "NameError"
    ELSE IF u \in ADMIN_IDS THEN "True" ELSE "False"

\* The document handle_file stores.
file_data(fid, name, caption) ==
    [file_id |-> fid, file_name |-> name, description |-> caption,
     tags |-> ExtractTags(caption), download_count |-> 0]

\* ------------------------------------------------------- handler plumbing

Running == BagToSet(inflight)

Put(h) == inflight (+) SetToBag({h})

Take(h) == inflight (-) SetToBag({h})

\* An update arrives and its handler is invoked.
Invoke ==
    /\ budget > 0
    /\ BagCardinality(inflight) < MaxInFlight
    /\ budget' = budget - 1

\* The tally after a handler ends with outcome out: it counts while no delete and
\* no failure has happened, and is void from then on.
Void == [uploads |-> 0, downloads |-> 0, clean |-> FALSE]

TallyAfter(out) ==
    IF ~tally.clean THEN tally
    ELSE CASE out = "uploaded" -> [tally EXCEPT !.uploads = tally.uploads + 1]
           [] out = "sent" -> [tally EXCEPT !.downloads = tally.downloads + 1]
           [] out \in {"deliveryError", "exception"} -> Void
           [] OTHER -> tally

\* The handler goes on to its next store operation.
Start(h, pc) ==
    /\ inflight' = Put([h EXCEPT !.pc = pc])
    /\ UNCHANGED <<reply, tally>>

\* The handler returns (or raises) before it has entered the bag.
Answer(h, out) ==
    /\ reply' = [h EXCEPT !.pc = "done", !.out = out]
    /\ UNCHANGED <<inflight, tally>>

\* The guard every handler starts with: is_admin raises, refuses, or lets it on.
\* A refused handler has not looked at its arguments: the reply keeps the command,
\* the caller and the target only.
Refuse(h) ==
    Answer([h EXCEPT !.fid = "", !.name = << >>, !.arg = << >>], IF is_admin(admins, h.user) = "NameError" THEN "exception" ELSE "denied")

Admitted(h) == is_admin(admins, h.user) = "True"

\* A handler in flight moves to position pc, with n the count its operation returned.
Move(h, pc, n) ==
    /\ inflight' = Take(h) (+) SetToBag({[h EXCEPT !.pc = pc, !.n = n]})
    /\ UNCHANGED reply

\* A handler in flight ends with outcome out.
Done(h, out, n) ==
    /\ inflight' = Take(h)
    /\ reply' = [h EXCEPT !.pc = "done", !.out = out, !.n = n]
    /\ tally' = TallyAfter(out)

At(h, op, pc) == h \in Running /\ h.op = op /\ h.pc = pc

\* History: the keyboard of a callback handler is resolved by the first callback
\* handler that ends, and keeps that handler's branch.
Resolve(ps, h) ==
    IF h.prompt = 0 \/ ps[h.prompt].resolved # "" THEN ps
    ELSE [ps EXCEPT ![h.prompt].resolved = h.op]

\* History: the keyboards that target fid have lost the record they were shown for.
Gone(ps, fid) ==
    [i \in 1..Len(ps) |-> IF ps[i].fid = fid THEN [ps[i] EXCEPT !.gone = TRUE] ELSE ps[i]]

Prompt(kind, fid) == [kind |-> kind, fid |-> fid, resolved |-> "", gone |-> FALSE]

\* The callback_data of the buttons of a keyboard: delete_yes_<id> and
\* delete_no_<id> (delete_file), download_<id> (file_info), as prefix and id.
Buttons(p) ==
    IF p.kind = "delete"
    THEN {<<"delete_yes_", p.fid>>, <<"delete_no_", p.fid>>}
    ELSE {<<"download_", p.fid>>}

\* ------------------------------------------------------------- handle_file

handle_file(u, fid, name, caption) ==
    LET h == Command("upload", u, fid, name, caption, 0) IN
    /\ Invoke
    /\ IF Admitted(h) THEN Start(h, "insert") ELSE Refuse(h)
    /\ UNCHANGED <<admins, files, stats, prompts>>

handle_file_insert(h) ==
    /\ At(h, "upload", "insert")
    /\ files' = Append(files, file_data(h.fid, h.name, h.arg))
    /\ Move(h, "stats", 0)
    /\ UNCHANGED <<admins, stats, prompts, budget, tally>>

handle_file_stats(h) ==
    /\ At(h, "upload", "stats")
    /\ stats' = update_stats(stats, "total_files")
    /\ Done(h, "uploaded", 0)
    /\ UNCHANGED <<admins, files, prompts, budget>>

\* ------------------------------------------------------------ search_files

search_files(u, words) ==
    LET h == Command("search", u, "", << >>, words, 0) IN
    /\ Invoke
    /\ IF Admitted(h) THEN Start(h, "find") ELSE Refuse(h)
    /\ UNCHANGED <<admins, files, stats, prompts>>

search_files_find(h) ==
    /\ At(h, "search", "find")
    /\ Done(h, IF search(files, h.arg) = << >> THEN "noResults" ELSE "results",
            Len(search(files, h.arg)))
    /\ UNCHANGED <<admins, files, stats, prompts, budget>>

\* ----------------------------------------- edit_description, edit_filename

edit_description(u, fid, text) ==
    LET h == Command("editdesc", u, fid, << >>, text, 0) IN
    /\ Invoke
    /\ IF Admitted(h) THEN Start(h, "update") ELSE Refuse(h)
    /\ UNCHANGED <<admins, files, stats, prompts>>

edit_filename(u, fid, text) ==
    LET h == Command("editname", u, fid, << >>, text, 0) IN
    /\ Invoke
    /\ IF Admitted(h) THEN Start(h, "update") ELSE Refuse(h)
    /\ UNCHANGED <<admins, files, stats, prompts>>

\* The update_one of either, and the reply chosen from modified_count.
EditUpdate(h, field) ==
    LET file == find_one(files, h.fid)
        doc == IF file = << >> THEN file ELSE <<SetField(file[1], field, h.arg)>>
        n == IF file = << >> THEN 0 ELSE modified_count(files, h.fid, doc[1])
    IN  /\ files' = IF file = << >> THEN files ELSE ReplaceFirst(files, h.fid, doc[1])
        /\ Done(h, IF n > 0 THEN "updated" ELSE "notFound", n)
        /\ UNCHANGED <<admins, stats, prompts, budget>>

edit_description_update(h) ==
    /\ At(h, "editdesc", "update")
    /\ EditUpdate(h, "description")

edit_filename_update(h) ==
    /\ At(h, "editname", "update")
    /\ EditUpdate(h, "file_name")

\* ------------------------------------------------------ add_tag, remove_tag

add_tag(u, fid, arg) ==
    LET h == Command("addtag", u, fid, << >>, arg, 0) IN
    /\ Invoke
    /\ IF Admitted(h) THEN Start(h, "update") ELSE Refuse(h)
    /\ UNCHANGED <<admins, files, stats, prompts>>

add_tag_update(h) ==
    LET tag == Lower(h.arg)
        file == find_one(files, h.fid)
        doc == IF file = << >> THEN file ELSE <<AddToSet(file[1], tag)>>
        n == IF file = << >> THEN 0 ELSE modified_count(files, h.fid, doc[1])
    IN  /\ At(h, "addtag", "update")
        /\ files' = IF file = << >> THEN files ELSE ReplaceFirst(files, h.fid, doc[1])
        /\ IF n > 0
           THEN Done(h, "added", n)
           ELSE Move(h, "find", n) /\ UNCHANGED tally
        /\ UNCHANGED <<admins, stats, prompts, budget>>

add_tag_find(h) ==
    LET tag == Lower(h.arg)
        file == get_file_info(files, h.fid)
    IN  /\ At(h, "addtag", "find")
        /\ Done(h, IF file = << >> THEN "notFound"
                   ELSE IF Contains(file[1].tags, tag) THEN "alreadyPresent"
                   ELSE "failed", 0)
        /\ UNCHANGED <<admins, files, stats, prompts, budget>>

remove_tag(u, fid, arg) ==
    LET h == Command("removetag", u, fid, << >>, arg, 0) IN
    /\ Invoke
    /\ IF Admitted(h) THEN Start(h, "update") ELSE Refuse(h)
    /\ UNCHANGED <<admins, files, stats, prompts>>

remove_tag_update(h) ==
    LET tag == Lower(h.arg)
        file == find_one(files, h.fid)
        doc == IF file = << >> THEN file ELSE <<Pull(file[1], tag)>>
        n == IF file = << >> THEN 0 ELSE modified_count(files, h.fid, doc[1])
    IN  /\ At(h, "removetag", "update")
        /\ files' = IF file = << >> THEN files ELSE ReplaceFirst(files, h.fid, doc[1])
        /\ IF n > 0
           THEN Done(h, "removed", n)
           ELSE Move(h, "find", n) /\ UNCHANGED tally
        /\ UNCHANGED <<admins, stats, prompts, budget>>

remove_tag_find(h) ==
    LET tag == Lower(h.arg)
        file == get_file_info(files, h.fid)
    IN  /\ At(h, "removetag", "find")
        /\ Done(h, IF file = << >> THEN "notFound"
                   ELSE IF ~Contains(file[1].tags, tag) THEN "absent"
                   ELSE "failed", 0)
        /\ UNCHANGED <<admins, files, stats, prompts, budget>>

\* -------------------------------------------------- add_admin, remove_admin

add_admin(u, target) ==
    LET h == Command("addadmin", u, "", << >>, << >>, target) IN
    /\ Invoke
    /\ IF Admitted(h) THEN Start(h, "check") ELSE Refuse(h)
    /\ UNCHANGED <<admins, files, stats, prompts>>

\* new_admin_id in ADMIN_IDS or db["admins"].find_one({"user_id": new_admin_id})
add_admin_check(h) ==
    /\ At(h, "addadmin", "check")
    /\ IF h.target \in ADMIN_IDS \/ HasAdminEntry(admins, h.target)
       THEN Done(h, "alreadyAdmin", 0)
       ELSE Move(h, "insert", 0) /\ UNCHANGED tally
    /\ UNCHANGED <<admins, files, stats, prompts, budget>>

add_admin_insert(h) ==
    /\ At(h, "addadmin", "insert")
    /\ admins' = Append(admins, [user_id |-> h.target, added_by |-> h.user])
    /\ Done(h, "added", 0)
    /\ UNCHANGED <<files, stats, prompts, budget>>

remove_admin(u, target) ==
    LET h == Command("removeadmin", u, "", << >>, << >>, target) IN
    /\ Invoke
    /\ IF Admitted(h)
       THEN IF target \in ADMIN_IDS THEN Answer(h, "protected") ELSE Start(h, "delete")
       ELSE Refuse(h)
    /\ UNCHANGED <<admins, files, stats, prompts>>

remove_admin_delete(h) ==
    /\ At(h, "removeadmin", "delete")
    /\ admins' = DeleteAdmin(admins, h.target)
    /\ Done(h, IF HasAdminEntry(admins, h.target) THEN "removed" ELSE "notAdmin",
            IF HasAdminEntry(admins, h.target) THEN 1 ELSE 0)
    /\ UNCHANGED <<files, stats, prompts, budget>>

\* --------------------------------------------------- delete_file, file_info

delete_file(u, fid) ==
    LET h == Command("deletefile", u, fid, << >>, << >>, 0) IN
    /\ Invoke
    /\ IF Admitted(h) THEN Start(h, "find") ELSE Refuse(h)
    /\ UNCHANGED <<admins, files, stats, prompts>>

\* get_file_info, then the reply: the confirmation keyboard, or no such file.
delete_file_find(h) ==
    /\ At(h, "deletefile", "find")
    /\ IF get_file_info(files, h.fid) = << >>
       THEN Done(h, "notFound", 0) /\ UNCHANGED prompts
       ELSE Done(h, "prompted", 0) /\ prompts' = Append(prompts, Prompt("delete", h.fid))
    /\ UNCHANGED <<admins, files, stats, budget>>

file_info(u, fid) ==
    LET h == Command("info", u, fid, << >>, << >>, 0) IN
    /\ Invoke
    /\ IF Admitted(h) THEN Start(h, "find") ELSE Refuse(h)
    /\ UNCHANGED <<admins, files, stats, prompts>>

file_info_find(h) ==
    /\ At(h, "info", "find")
    /\ IF get_file_info(files, h.fid) = << >>
       THEN Done(h, "notFound", 0) /\ UNCHANGED prompts
       ELSE Done(h, "prompted", 0) /\ prompts' = Append(prompts, Prompt("download", h.fid))
    /\ UNCHANGED <<admins, files, stats, budget>>

\* --------------------------------------------------------- handle_callback

\* The branch data.startswith(...) takes, as the handler's op.
Branch(data) ==
    CASE data[1] = "delete_yes_" -> "delete_yes"
      [] data[1] = "delete_no_" -> "delete_no"
      [] data[1] = "download_" -> "download"

\* A button of keyboard p is pressed by u: the callback query arrives.
handle_callback(u, p, data) ==
    LET h == Handler(Branch(data), u, data[2], << >>, << >>, 0, p,
                     prompts[p].resolved, prompts[p].gone) IN
    /\ Invoke
    /\ IF Admitted(h)
       THEN IF h.op = "delete_no"
            THEN Answer(h, "cancelled") /\ prompts' = Resolve(prompts, h)
            ELSE Start(h, "find") /\ UNCHANGED prompts
       ELSE Refuse(h) /\ UNCHANGED prompts
    /\ UNCHANGED <<admins, files, stats>>

handle_callback_delete_find(h) ==
    /\ At(h, "delete_yes", "find")
    /\ IF get_file_info(files, h.fid) = << >>
       THEN Done(h, "notFound", 0) /\ prompts' = Resolve(prompts, h)
       ELSE Move(h, "delete", 0) /\ UNCHANGED <<prompts, tally>>
    /\ UNCHANGED <<admins, files, stats, budget>>

\* files_collection.delete_one({"file_id": file_id}); its result is not looked at.
handle_callback_delete_one(h) ==
    /\ At(h, "delete_yes", "delete")
    /\ files' = delete_one(files, h.fid)
    /\ Move(h, "stats", deleted_count(files, h.fid))
    /\ prompts' = IF deleted_count(files, h.fid) = 1 THEN Gone(prompts, h.fid) ELSE prompts
    /\ tally' = IF deleted_count(files, h.fid) = 1 THEN Void ELSE tally
    /\ UNCHANGED <<admins, stats, budget>>

\* edit_message_text, then the decrement of total_files: when the edit raises
\* (ok is false) the handler ends there.
handle_callback_delete_stats(h, ok) ==
    /\ At(h, "delete_yes", "stats")
    /\ stats' = IF ok THEN DecTotalFiles(stats) ELSE stats
    /\ Done(h, IF ok THEN "deleted" ELSE "exception", h.n)
    /\ prompts' = Resolve(prompts, h)
    /\ UNCHANGED <<admins, files, budget>>

handle_callback_download_find(h) ==
    /\ At(h, "download", "find")
    /\ IF get_file_info(files, h.fid) = << >>
       THEN Done(h, "notFound", 0) /\ prompts' = Resolve(prompts, h)
       ELSE Move(h, "inc", 0) /\ UNCHANGED <<prompts, tally>>
    /\ UNCHANGED <<admins, files, stats, budget>>

\* files_collection.update_one({"file_id": file_id}, {"$inc": {"download_count": 1}})
handle_callback_download_inc(h) ==
    LET file == find_one(files, h.fid) IN
    /\ At(h, "download", "inc")
    /\ files' = IF file = << >> THEN files
                ELSE ReplaceFirst(files, h.fid, IncDownload(file[1]))
    /\ Move(h, "stats", IF file = << >> THEN 0 ELSE 1)
    /\ UNCHANGED <<admins, stats, prompts, budget, tally>>

\* update_stats("total_downloads"); the handler then waits in the send.
handle_callback_download_stats(h) ==
    /\ At(h, "download", "stats")
    /\ stats' = update_stats(stats, "total_downloads")
    /\ Move(h, "send", h.n)
    /\ UNCHANGED <<admins, files, prompts, budget, tally>>

\* The send returns and the handler reports that the file was sent, or it raises
\* (ok is false) and the except branch reports the error.
handle_callback_download_send(h, ok) ==
    /\ At(h, "download", "send")
    /\ Done(h, IF ok THEN "sent" ELSE "deliveryError", h.n)
    /\ prompts' = Resolve(prompts, h)
    /\ UNCHANGED <<admins, files, stats, budget>>

\* ------------------------------------------------------------ specification

\* A fresh database: the stats document is created with zero counters at start-up.
Init ==
    /\ admins = << >>
    /\ files = << >>
    /\ stats = [total_files |-> 0, total_downloads |-> 0]
    /\ prompts = << >>
    /\ inflight = EmptyBag
    /\ reply = NoReply
    /\ budget = MaxEvents
    /\ tally = [uploads |-> 0, downloads |-> 0, clean |-> TRUE]

\* The same database with more handlers to come.
InitSeq ==
    /\ admins = << >>
    /\ files = << >>
    /\ stats = [total_files |-> 0, total_downloads |-> 0]
    /\ prompts = << >>
    /\ inflight = EmptyBag
    /\ reply = NoReply
    /\ budget = MaxSeqEvents
    /\ tally = [uploads |-> 0, downloads |-> 0, clean |-> TRUE]

\* An update arrives: a command, an upload, or a press of a button of a keyboard.
Arrive ==
    \/ \E u \in Users, m \in Uploads : handle_file(u, m.fid, m.name, m.caption)
    \/ \E u \in Users, words \in Keywords : search_files(u, words)
    \/ \E u \in Users, fid \in FileIds, text \in Texts : edit_description(u, fid, text)
    \/ \E u \in Users, fid \in FileIds, text \in Texts : edit_filename(u, fid, text)
    \/ \E u \in Users, fid \in FileIds, arg \in TagArgs : add_tag(u, fid, arg)
    \/ \E u \in Users, fid \in FileIds, arg \in TagArgs : remove_tag(u, fid, arg)
    \/ \E u \in Users, target \in Users : add_admin(u, target)
    \/ \E u \in Users, target \in Users : remove_admin(u, target)
    \/ \E u \in Users, fid \in FileIds : delete_file(u, fid)
    \/ \E u \in Users, fid \in FileIds : file_info(u, fid)
    \/ \E u \in Users, p \in 1..Len(prompts) : \E data \in Buttons(prompts[p]) :
          handle_callback(u, p, data)

\* A handler in flight performs its next store operation.
Step ==
    \/ \E h \in Running : handle_file_insert(h)
    \/ \E h \in Running : handle_file_stats(h)
    \/ \E h \in Running : search_files_find(h)
    \/ \E h \in Running : edit_description_update(h)
    \/ \E h \in Running : edit_filename_update(h)
    \/ \E h \in Running : add_tag_update(h)
    \/ \E h \in Running : add_tag_find(h)
    \/ \E h \in Running : remove_tag_update(h)
    \/ \E h \in Running : remove_tag_find(h)
    \/ \E h \in Running : add_admin_check(h)
    \/ \E h \in Running : add_admin_insert(h)
    \/ \E h \in Running : remove_admin_delete(h)
    \/ \E h \in Running : delete_file_find(h)
    \/ \E h \in Running : file_info_find(h)
    \/ \E h \in Running : handle_callback_delete_find(h)
    \/ \E h \in Running : handle_callback_delete_one(h)
    \/ \E h \in Running, ok \in BOOLEAN : handle_callback_delete_stats(h, ok)
    \/ \E h \in Running : handle_callback_download_find(h)
    \/ \E h \in Running : handle_callback_download_inc(h)
    \/ \E h \in Running : handle_callback_download_stats(h)
    \/ \E h \in Running, ok \in BOOLEAN : handle_callback_download_send(h, ok)

\* The handler waits in a transport call that more of its steps follow:
\* edit_message_text between delete_one and the decrement in the delete_yes
\* branch, the send between update_stats and the report in the download branch.
Awaiting(h) ==
    \/ h.op = "delete_yes" /\ h.pc = "stats"
    \/ h.op = "download" /\ h.pc = "send"

\* The handlers in flight that are running between two transport calls.  There
\* is one event loop, so at most one.
Busy == {h \in Running : ~Awaiting(h)}

\* A handler that is running goes on to its next store operation before anything
\* else happens; while every handler in flight waits in a transport call, a
\* further update is taken up or one of the waiting handlers resumes.
Next ==
    \/ Busy = {} /\ Arrive
    \/ Step /\ \A g \in Busy : CopiesIn(g, inflight') = 0

\* Updates are handled one at a time: the next arrives when no handler is in flight.
NextSeq == (inflight = EmptyBag /\ Arrive) \/ Step

Spec == Init /\ [][Next]_vars

SpecSeq == InitSeq /\ [][NextSeq]_vars

\* -------------------------------------------------------------- the claims

\* A step of a callback handler that is in flight.
CallbackStep(h) ==
    \/ handle_callback_delete_find(h)
    \/ handle_callback_delete_one(h)
    \/ \E ok \in BOOLEAN : handle_callback_delete_stats(h, ok)
    \/ handle_callback_download_find(h)
    \/ handle_callback_download_inc(h)
    \/ handle_callback_download_stats(h)
    \/ \E ok \in BOOLEAN : handle_callback_download_send(h, ok)

\* The tags of the document find_one returns for fid.
TagsOf(fs, fid) == fs[FirstMatch(fs, fid)].tags

\* C1: in every reachable state and for every user, is_admin returns a boolean (it
\* does not raise), and returns true exactly when the user is in ADMIN_IDS or has
\* a document in the admins collection.
C1_IsAdminIffAuthorized ==
    \A u \in Users :
        /\ is_admin(admins, u) \in {"True", "False"}
        /\ is_admin(admins, u) = "True" <=> (u \in ADMIN_IDS \/ HasAdminEntry(admins, u))

\* C2: once a user outside ADMIN_IDS has been added as an admin, the user's
\* /deletefile for an existing file passes the guard and goes on to issue the
\* prompt, and the user's accepting callback passes the guard and goes on to the
\* delete.
C2_AddedAdminCanDelete ==
    [][\A u \in Users \ ADMIN_IDS :
          HasAdminEntry(admins, u) =>
             /\ \A fid \in FileIds :
                   (get_file_info(files, fid) # << >> /\ delete_file(u, fid))
                   => \E h \in BagToSet(inflight') :
                         h.op = "deletefile" /\ h.user = u /\ h.fid = fid
             /\ \A p \in 1..Len(prompts) :
                   (prompts[p].kind = "delete"
                    /\ handle_callback(u, p, <<"delete_yes_", prompts[p].fid>>))
                   => \E h \in BagToSet(inflight') :
                         h.op = "delete_yes" /\ h.user = u /\ h.prompt = p]_vars

\* C3: /removeadmin that targets a member of ADMIN_IDS is answered with the
\* protected outcome and leaves the admins collection as it was.  The callers are
\* taken from ADMIN_IDS, the callers the claim's dispatcher lets through in every
\* state.
C3_BootstrapRemovalProtected ==
    [][\A u \in ADMIN_IDS, t \in ADMIN_IDS :
          remove_admin(u, t)
          => /\ reply'.op = "removeadmin"
             /\ reply'.out = "protected"
             /\ admins' = admins]_vars

\* C4: a callback that arrives after the same callback of the same keyboard has
\* been handled to its end changes nothing: no step of its handler changes the
\* files collection (the records, their download_count) or the stats document
\* (total_files, total_downloads), and it ends with the not-found report, the
\* code's already-resolved answer.
C4_SecondDeliveryNoMutation ==
    [][\A h \in Running :
          (h.prompt # 0 /\ h.after = h.op /\ CallbackStep(h))
          => /\ UNCHANGED <<files, stats>>
             /\ reply' # reply => reply'.out = "notFound"]_vars

\* C5: right after a delete confirmation has removed a record of a file id,
\* get_file_info finds nothing for that id and search returns no record of that
\* id for any keyword.
C5_DeletedFileAbsent ==
    [][\A h \in Running :
          (handle_callback_delete_one(h) /\ deleted_count(files, h.fid) = 1)
          => /\ get_file_info(files', h.fid) = << >>
             /\ \A words \in Keywords :
                   \A i \in 1..Len(search(files', words)) :
                      search(files', words)[i].file_id # h.fid]_vars

\* C6: in every reachable state every file's tags hold no tag twice and every
\* tag is lowercase.
C6_TagsAreFoldedSet ==
    \A i \in 1..Len(files) :
        \A j \in 1..Len(files[i].tags) :
            /\ Count(files[i].tags, files[i].tags[j]) = 1
            /\ Lower(files[i].tags[j]) = files[i].tags[j]

\* The handler h is /addtag issued right after the /addtag of the same file and
\* tag returned added: that handler finished last, and since then no other handler
\* has finished or is in flight.
AddTagAgain(h) ==
    /\ h.op = "addtag"
    /\ inflight = SetToBag({h})
    /\ reply.op = "addtag" /\ reply.out = "added"
    /\ reply.fid = h.fid /\ Lower(reply.arg) = Lower(h.arg)

\* C7: /addtag on an existing file that lacks the tag returns added and the tags
\* then hold it once; the same /addtag issued again right after changes nothing
\* and returns alreadyPresent, with the tag still held exactly once.
C7_AddTagTwice ==
    [][\A h \in Running :
          /\ (add_tag_update(h) /\ get_file_info(files, h.fid) # << >>
              /\ ~Contains(TagsOf(files, h.fid), Lower(h.arg)))
             => /\ reply'.op = "addtag" /\ reply'.out = "added"
                /\ Count(TagsOf(files', h.fid), Lower(h.arg)) = 1
          /\ (AddTagAgain(h) /\ add_tag_update(h))
             => /\ files' = files
                /\ \E g \in BagToSet(inflight') : g.op = "addtag" /\ g.pc = "find"
          /\ (AddTagAgain(h) /\ add_tag_find(h))
             => /\ reply'.op = "addtag" /\ reply'.out = "alreadyPresent"
                /\ files' = files
                /\ Count(TagsOf(files', h.fid), Lower(h.arg)) = 1]_vars

\* C7 witness: the second /addtag in a row has run its update_one, which modified
\* nothing, and the file holds the tag once.
C7_Witness ==
    \E h \in Running :
        /\ AddTagAgain(h)
        /\ h.pc = "find"
        /\ Count(TagsOf(files, h.fid), Lower(h.arg)) = 1

\* C8: when no handler is in flight and no delete and no failure has happened,
\* total_files is the number of successful uploads and total_downloads the number
\* of successful download confirmations, whatever the interleaving was.
C8_StatsCountEvents ==
    (inflight = EmptyBag /\ tally.clean)
    => /\ stats.total_files = tally.uploads
       /\ stats.total_downloads = tally.downloads

\* C8 witness: two uploads and a download have succeeded.
C8_Witness ==
    /\ inflight = EmptyBag
    /\ tally.clean
    /\ tally.uploads = 2
    /\ tally.downloads = 1

C10_StaleCallbackNotFound ==
    [][\A h \in Running :
          h.stale =>
             /\ (handle_callback_delete_find(h) \/ handle_callback_download_find(h))
                => (reply'.out = "notFound" /\ reply'.prompt = h.prompt)
             /\ CallbackStep(h) => UNCHANGED <<files, stats>>]_vars

\* An update from user u arrives: any of the commands, an upload, or a button press.
EventOf(u) ==
    \/ \E m \in Uploads : handle_file(u, m.fid, m.name, m.caption)
    \/ \E words \in Keywords : search_files(u, words)
    \/ \E fid \in FileIds, text \in Texts : edit_description(u, fid, text)
    \/ \E fid \in FileIds, text \in Texts : edit_filename(u, fid, text)
    \/ \E fid \in FileIds, arg \in TagArgs : add_tag(u, fid, arg)
    \/ \E fid \in FileIds, arg \in TagArgs : remove_tag(u, fid, arg)
    \/ \E target \in Users : add_admin(u, target)
    \/ \E target \in Users : remove_admin(u, target)
    \/ \E fid \in FileIds : delete_file(u, fid)
    \/ \E fid \in FileIds : file_info(u, fid)
    \/ \E p \in 1..Len(prompts) : \E data \in Buttons(prompts[p]) :
          handle_callback(u, p, data)

\* C11: an update from a user who is neither in ADMIN_IDS nor in the admins
\* collection is refused at the guard: its handler does not go on to any store
\* operation and the files, admins and stats collections stay as they are; and
\* every handler that is in flight, the only ones that change those collections,
\* belongs to a user who is an admin.
C11_NonAdminChangesNothing ==
    [][/\ \A u \in Users :
             (~(u \in ADMIN_IDS \/ HasAdminEntry(admins, u)) /\ EventOf(u))
             => /\ UNCHANGED <<files, admins, stats, inflight>>
                /\ reply'.user = u /\ reply'.out \in {"denied", "exception"}
       /\ \A h \in BagToSet(inflight') :
             h.user \in ADMIN_IDS \/ HasAdminEntry(admins', h.user)]_vars

\* C11 witness: an upload by a user who is no admin has been refused while the
\* collection holds a file.
C11_Witness ==
    /\ reply.op = "upload" /\ reply.out = "denied"
    /\ ~(reply.user \in ADMIN_IDS \/ HasAdminEntry(admins, reply.user))
    /\ Len(files) > 0

\* No user_id is in two documents of the admins collection, and no member of
\* ADMIN_IDS is in any.
UniqueAdmins(adm) ==
    /\ \A i, j \in 1..Len(adm) : adm[i].user_id = adm[j].user_id => i = j
    /\ \A i \in 1..Len(adm) : adm[i].user_id \notin ADMIN_IDS

\* C12: /addadmin from a member of ADMIN_IDS for a user who is in ADMIN_IDS or in
\* the admins collection gets past the guard to the membership test, which
\* answers alreadyAdmin and inserts nothing; for any other user the handler
\* inserts one document for that user; and after every step the admins collection
\* holds no user twice and no member of ADMIN_IDS.
C12_AddAdminKeepsEntriesUnique ==
    [][/\ \A u \in ADMIN_IDS, t \in Users :
             (add_admin(u, t) /\ (t \in ADMIN_IDS \/ HasAdminEntry(admins, t)))
             => \E h \in BagToSet(inflight') :
                   h.op = "addadmin" /\ h.target = t /\ h.pc = "check"
       /\ \A h \in Running :
             /\ (add_admin_check(h)
                 /\ (h.target \in ADMIN_IDS \/ HasAdminEntry(admins, h.target)))
                => (reply'.out = "alreadyAdmin" /\ admins' = admins)
             /\ add_admin_insert(h)
                => /\ reply'.out = "added"
                   /\ Len(admins') = Len(admins) + 1
                   /\ admins'[Len(admins')].user_id = h.target
       /\ UniqueAdmins(admins')]_vars

\* C13: /removeadmin from a member of ADMIN_IDS for a user outside ADMIN_IDS gets
\* past the guard to the delete_one; when the admins collection holds a document
\* of the user the handler answers removed, the document is gone and is_admin
\* returns false for the user; when it holds none the handler answers notAdmin
\* and the collection is unchanged.
C13_RemoveAdminRemovesEntry ==
    [][/\ \A u \in ADMIN_IDS, t \in Users \ ADMIN_IDS :
             remove_admin(u, t)
             => \E h \in BagToSet(inflight') :
                   h.op = "removeadmin" /\ h.target = t /\ h.pc = "delete"
       /\ \A h \in Running :
             remove_admin_delete(h)
             => IF HasAdminEntry(admins, h.target)
                THEN /\ reply'.out = "removed"
                     /\ ~HasAdminEntry(admins', h.target)
                     /\ is_admin(admins', h.target) = "False"
                ELSE /\ reply'.out = "notAdmin"
                     /\ admins' = admins]_vars

\* The documents find(query) matches for the words of a /search, without the limit.
Hits(fs, words) == SelectSeq(fs, LAMBDA d : Matches(d, Lower(words)))

\* C14: when /search runs its find, a document is among the matches exactly when
\* the keyword is a case-insensitive substring of its file_name or description or
\* the lower-cased keyword is one of its tags; and every document that has the
\* keyword among its tags in some letter case is among the matches, whatever its
\* description has become.
C14_SearchFindsByTagAnyCase ==
    [][\A h \in Running :
          search_files_find(h)
          => \A i \in 1..Len(files) :
                /\ Contains(Hits(files, h.arg), files[i])
                   <=> \/ IsSubstring(Lower(h.arg), Lower(files[i].file_name))
                       \/ IsSubstring(Lower(h.arg), Lower(files[i].description))
                       \/ Contains(files[i].tags, Lower(h.arg))
                /\ (\E j \in 1..Len(files[i].tags) :
                       Lower(files[i].tags[j]) = Lower(h.arg))
                   => /\ Contains(Hits(files, h.arg), files[i])
                      /\ reply'.out = "results"]_vars

\* s in reverse order.
Reverse(s) == [i \in 1..Len(s) |-> s[Len(s) + 1 - i]]

\* The first n elements of s, or all of s when it has fewer.
FirstN(s, n) == SubSeq(s, 1, IF Len(s) < n THEN Len(s) ELSE n)

\* C15: the documents /search returns are the matching documents from the most
\* recently inserted to the oldest, cut after the first SearchLimit.
C15_SearchNewestFirst ==
    [][\A h \in Running :
          search_files_find(h)
          => /\ search(files, h.arg) = FirstN(Reverse(Hits(files, h.arg)), SearchLimit)
             /\ reply'.n = Len(search(files, h.arg))
             /\ reply'.n <= SearchLimit]_vars

\* C16: the update_one of /editname and of /editdesc answers updated when a
\* document with the file id exists, whatever the new value, and notFound when
\* none exists.
C16_EditReportsUpdated ==
    [][\A h \in Running :
          (edit_filename_update(h) \/ edit_description_update(h))
          => /\ reply'.op = h.op
             /\ reply'.out = IF get_file_info(files, h.fid) # << >>
                             THEN "updated" ELSE "notFound"]_vars

\* The download_count of the document find_one returns for fid.
DownloadsOf(fs, fid) == fs[FirstMatch(fs, fid)].download_count

\* C17: in the handling of a download callback for an existing file the
\* update_one adds one to the file's download_count and changes nothing else;
\* the step that follows adds one to total_downloads and leaves the files
\* collection, total_files and the admins collection as they are, and when the
\* send then fails the handler reports the delivery error and leaves the files
\* collection (the incremented count included), both counters and the admins
\* collection as they are.
C17_SendFailureKeepsIncrements ==
    [][\A h \in Running :
          /\ (handle_callback_download_inc(h) /\ get_file_info(files, h.fid) # << >>)
             => /\ DownloadsOf(files', h.fid) = DownloadsOf(files, h.fid) + 1
                /\ Len(files') = Len(files)
                /\ \A i \in 1..Len(files) :
                      i # FirstMatch(files, h.fid) => files'[i] = files[i]
                /\ UNCHANGED <<stats, admins>>
          /\ handle_callback_download_stats(h)
             => /\ stats'.total_downloads = stats.total_downloads + 1
                /\ stats'.total_files = stats.total_files
                /\ UNCHANGED <<files, admins>>
          /\ handle_callback_download_send(h, FALSE)
             => /\ reply'.op = "download" /\ reply'.out = "deliveryError"
                /\ UNCHANGED <<files, stats, admins>>]_vars

\* C17 witness: a download callback has ended with the delivery error after its
\* two increments: the file's download_count and total_downloads are both 1.
C17_Witness ==
    /\ reply.op = "download" /\ reply.out = "deliveryError" /\ reply.n = 1
    /\ get_file_info(files, reply.fid) # << >>
    /\ DownloadsOf(files, reply.fid) = 1
    /\ stats.total_downloads = 1

\* C18: in every reachable state no two documents of the files collection have
\* the same file_id.
C18_FileIdsUnique ==
    \A i, j \in 1..Len(files) : files[i].file_id = files[j].file_id => i = j

\* C19: a press of the accept button of a delete keyboard whose cancel button has
\* been handled before changes nothing: no step of its handler changes the files
\* collection or the stats document; and handling the cancel itself changes
\* neither.
C19_RejectIsTerminal ==
    [][/\ \A h \in Running :
             (h.op = "delete_yes" /\ h.after = "delete_no" /\ CallbackStep(h))
             => UNCHANGED <<files, stats>>
       /\ (reply'.op = "delete_no" /\ reply' # reply) => UNCHANGED <<files, stats>>]_vars

\* C20: /addtag ends with added, alreadyPresent or notFound and /removetag with
\* removed, absent or notFound once past the guard, and the outcome agrees with
\* the files collection at the step that reports it: added and removed come with
\* the tag entering and leaving the tags of the file, alreadyPresent and absent
\* with a file that holds and lacks the tag and is left as it was, notFound with
\* no file of that id; also while a delete confirmation of the file is in flight.
C20_TagOutcomesEnumerated ==
    [][\A h \in Running :
          /\ (add_tag_update(h) \/ add_tag_find(h)) /\ reply' # reply
             => \/ /\ reply'.out = "added"
                   /\ ~Contains(TagsOf(files, h.fid), Lower(h.arg))
                   /\ Contains(TagsOf(files', h.fid), Lower(h.arg))
                \/ /\ reply'.out = "alreadyPresent"
                   /\ files' = files
                   /\ Contains(TagsOf(files, h.fid), Lower(h.arg))
                \/ /\ reply'.out = "notFound"
                   /\ files' = files
                   /\ get_file_info(files, h.fid) = << >>
          /\ (remove_tag_update(h) \/ remove_tag_find(h)) /\ reply' # reply
             => \/ /\ reply'.out = "removed"
                   /\ Contains(TagsOf(files, h.fid), Lower(h.arg))
                   /\ ~Contains(TagsOf(files', h.fid), Lower(h.arg))
                \/ /\ reply'.out = "absent"
                   /\ files' = files
                   /\ ~Contains(TagsOf(files, h.fid), Lower(h.arg))
                \/ /\ reply'.out = "notFound"
                   /\ files' = files
                   /\ get_file_info(files, h.fid) = << >>]_vars

\* C21: whenever no handler is in flight, total_files is the number of documents
\* in the files collection.
C21_TotalFilesCountsRecords ==
    inflight = EmptyBag => stats.total_files = Len(files)

\* C22: an update from a member of ADMIN_IDS always finds is_admin returning true
\* for the sender, so its handler is never refused at the guard, whatever
\* /addadmin and /removeadmin have done before.
C22_BootstrapNeverLockedOut ==
    [][\A u \in ADMIN_IDS :
          EventOf(u)
          => /\ is_admin(admins, u) = "True"
             /\ reply' # reply => reply'.out \notin {"denied", "exception"}]_vars

\* C20 witness: /addtag or /removetag has run while a delete confirmation of the
\* same file was in flight, after its delete_one and before its decrement, and
\* has reported notFound.
C20_Witness ==
    /\ reply.op \in {"addtag", "removetag"} /\ reply.out = "notFound"
    /\ \E h \in Running :
          h.op = "delete_yes" /\ Awaiting(h) /\ h.n = 1 /\ h.fid = reply.fid

====
